---- MODULE Spec2Model ----
(***************************************************************************)
(* Battery dispatch simulation: the strategy classes                       *)
(* (ThresholdBasedSimulator, TimeWindowRuleBasedSimulator,                 *)
(* LPBasedSimulator, RuleBasedSimulator), the run_simulation day loop,     *)
(* reset and calculate_profit.  Spec runs one object; ScenarioSpec runs    *)
(* one four-step day on one battery; FleetSpec runs two objects on shared  *)
(* inputs.                                                                 *)
(*                                                                         *)
(* Numbers.  The program computes in floating point; the model computes    *)
(* in exact rationals <<n, d>> (d > 0, lowest terms), so every statement   *)
(* below is about the arithmetic the code writes down, not about rounding. *)
(***************************************************************************)
EXTENDS Integers, Sequences, FiniteSets

\* ------------------------------------------------------------- bounds
\* Rows simulated over the life of one strategy object.
MaxRows == 3
\* Calendar dates an input frame may mention.
MaxDays == 2
\* Calls of reset() over the life of one strategy object.
MaxResets == 1

\* ---------------------------------------------------------- rationals
Abs(x) == IF x < 0 THEN -x ELSE x

RECURSIVE GCD(_, _)
GCD(a, b) == IF b = 0 THEN a ELSE GCD(b, a % b)

\* The rational n/d in lowest terms with a positive denominator.
Q(n, d) ==
    LET s == IF d < 0 THEN -1 ELSE 1
        g == GCD(Abs(n), Abs(d))
    IN  <<(s * n) \div g, (s * d) \div g>>

QInt(n) == <<n, 1>>
Zero == <<0, 1>>
Half == <<1, 2>>
QAdd(a, b) == Q(a[1] * b[2] + b[1] * a[2], a[2] * b[2])
QSub(a, b) == Q(a[1] * b[2] - b[1] * a[2], a[2] * b[2])
QMul(a, b) == Q(a[1] * b[1], a[2] * b[2])
\* a / b, b # 0.
QDiv(a, b) == Q(a[1] * b[2], a[2] * b[1])
QLt(a, b) == a[1] * b[2] < b[1] * a[2]
QLe(a, b) == a[1] * b[2] <= b[1] * a[2]
QMin(a, b) == IF QLe(a, b) THEN a ELSE b
QMax(a, b) == IF QLe(a, b) THEN b ELSE a
\* floor of a rational >= 0.
QFloor(a) == a[1] \div a[2]

\* The step length: 15 minutes in hours (the literal 0.25 of the heuristics,
\* dt of the linear program).
dt == <<1, 4>>

\* ------------------------------------------------------ configurations
\* Constructor arguments.  The constructors store whatever they are given,
\* so the sets hold the values of the documented domain (capacity > 0,
\* power >= 0, 0 < efficiency <= 1, windows [start, end) with start <= end)
\* and values outside it.
Params(cap, pw, eff, deg, fee, bh, sh) ==
    [capacity |-> cap, max_power |-> pw, efficiency |-> eff,
     degradation_cost |-> deg, grid_fee |-> fee,
     buy_threshold |-> <<1, 4>>, sell_threshold |-> <<3, 4>>,
     buy_hours |-> bh, sell_hours |-> sh]

\* Small battery, lossy: the capacity limit binds within one step.
CfgSmall == Params(<<1, 8>>, QInt(2), Half, Zero, Zero, <<12, 14>>, <<19, 21>>)
\* Large battery, lossless: the power limit binds.
CfgLarge == Params(QInt(2), QInt(2), QInt(1), QInt(1), QInt(1), <<12, 14>>, <<20, 21>>)
\* No power at all.
CfgNoPower == Params(QInt(1), Zero, QInt(1), QInt(1), QInt(1), <<12, 20>>, <<19, 21>>)
\* efficiency > 1.
CfgGain == Params(Half, QInt(2), QInt(2), Zero, Zero, <<12, 14>>, <<19, 21>>)
\* capacity < 0.
CfgNegCap == Params(QInt(-1), QInt(2), QInt(1), Zero, Zero, <<12, 14>>, <<19, 21>>)
\* Overlapping windows: hour 19 lies in both.
CfgOverlap == Params(QInt(2), QInt(2), QInt(1), QInt(1), QInt(1), <<12, 20>>, <<19, 21>>)
\* Small lossless battery with a grid fee above every price drop: stored PV
\* is the cheap energy.
CfgPvFee == Params(<<1, 4>>, QInt(2), QInt(1), Zero, QInt(3), <<12, 14>>, <<19, 21>>)
\* Buy window with start > end.
CfgBadWindow == Params(QInt(2), QInt(2), QInt(1), Zero, Zero, <<14, 12>>, <<19, 21>>)

ValidParams(c) ==
    /\ QLt(Zero, c.capacity)
    /\ QLe(Zero, c.max_power)
    /\ QLt(Zero, c.efficiency) /\ QLe(c.efficiency, QInt(1))

ValidWindows(c) ==
    /\ c.buy_hours[1] <= c.buy_hours[2]
    /\ c.sell_hours[1] <= c.sell_hours[2]

Kinds == {"threshold", "window", "lp"}

\* ------------------------------------------------------------- inputs
\* A row of the price frame: its index label (the frame's RangeIndex), its
\* timestamp (calendar date and hour of day) and its price.
Slots ==
    { [hour |-> 12, price |-> QInt(-2)],
      [hour |-> 19, price |-> QInt(4)] }

RowPool == { [date |-> d, hour |-> s.hour, price |-> s.price] :
                d \in 1..MaxDays, s \in Slots }

\* The frames of n rows: row i carries label i - 1.
Frames(n) ==
    { [i \in 1..n |->
          [idx |-> i - 1,
           timestamp |-> [date |-> f[i].date, hour |-> f[i].hour],
           price_eur_per_mwh |-> f[i].price]] : f \in [1..n -> RowPool] }

\* pv_series / load_series: None (given = FALSE), or a series indexed by
\* the frame's labels.
None == [given |-> FALSE, values |-> [l \in {} |-> Zero]]
Labels == 0..(MaxRows - 1)

\* PV: half a unit at the even labels, nothing at the odd ones.
PvSeries(dom) ==
    [given |-> TRUE, values |-> [l \in dom |-> IF l % 2 = 0 THEN Half ELSE Zero]]
\* Load: nothing at label 0, half a unit afterwards.
LoadSeries(dom) ==
    [given |-> TRUE, values |-> [l \in dom |-> IF l = 0 THEN Zero ELSE Half]]

\* (pv_series, load_series) pairs a strategy is constructed with: none, both
\* complete, and each with one label missing.
SeriesPairs ==
    { <<None, None>>,
      <<PvSeries(Labels), LoadSeries(Labels)>>,
      <<PvSeries(Labels \ {1}), LoadSeries(Labels)>>,
      <<PvSeries(Labels), LoadSeries(Labels \ {0})>> }

\* ------------------------------------------------------- the strategy
\* A strategy object: the constructor's fields.  kind names the class
\* ("simple" is RuleBasedSimulator of simple_rule.py, which takes no series).
\* BatterySimulator.__init__ / LPBasedSimulator.__init__: every argument is
\* stored as given, soc starts at half the capacity, results start empty.
Construct(kind, c, series) ==
    [kind |-> kind, cfg |-> c,
     pv_series |-> series[1], load_series |-> series[2],
     soc |-> QMul(Half, c.capacity), results |-> <<>>]

\* reset() that forgets to clear the results.
resetKeepResults(self) ==
    [self EXCEPT !.soc = QMul(Half, self.cfg.capacity)]

\* reset(): soc back to half the capacity, results cleared.
reset(self) ==
    [self EXCEPT !.soc = QMul(Half, self.cfg.capacity), !.results = <<>>]

\* series.loc[label]: the value, or a KeyError when the label is missing.
HasLabel(series, l) == ~series.given \/ l \in DOMAIN series.values
Loc(series, l) == IF series.given THEN series.values[l] ELSE Zero

\* The record appended for one row.
Record(row, soc, action, charge_mwh, discharge_mwh, from_pv, from_grid, to_load, to_grid, pv_export) ==
    [timestamp |-> row.timestamp,
     price_eur_per_mwh |-> row.price_eur_per_mwh,
     soc |-> soc, action |-> action,
     charge_mwh |-> charge_mwh,
     discharge_mwh |-> discharge_mwh,
     from_pv_mwh |-> from_pv, from_grid_mwh |-> from_grid,
     to_load_mwh |-> to_load, to_grid_mwh |-> to_grid,
     pv_export_mwh |-> pv_export]

\* The charge branch without the free-capacity limit.
ChargeBranchUncapped(c, row, soc, pv, load) ==
    LET max_charge == QMul(c.max_power, dt)
        surplus == QMax(QSub(pv, load), Zero)
        from_pv == QMin(max_charge, surplus)
        from_grid == QSub(max_charge, from_pv)
        charge_mwh == QAdd(from_pv, from_grid)
        pv_used == QAdd(from_pv, QMin(load, pv))
    IN  Record(row, QAdd(soc, QMul(charge_mwh, c.efficiency)), "charge",
               charge_mwh, Zero, from_pv, from_grid, Zero, Zero,
               QMax(QSub(pv, pv_used), Zero))

\* The charge branch with pv_used = min(load, pv): the PV that charges the
\* battery is exported as well.
ChargeBranchExportAll(c, row, soc, pv, load) ==
    LET available_capacity == QSub(c.capacity, soc)
        max_charge == QMin(QMul(c.max_power, dt), available_capacity)
        surplus == QMax(QSub(pv, load), Zero)
        from_pv == QMin(max_charge, surplus)
        from_grid == QSub(max_charge, from_pv)
        charge_mwh == QAdd(from_pv, from_grid)
        pv_used == QMin(load, pv)
    IN  Record(row, QAdd(soc, QMul(charge_mwh, c.efficiency)), "charge",
               charge_mwh, Zero, from_pv, from_grid, Zero, Zero, QMax(QSub(pv, pv_used), Zero))

\* The charge branch labelled by the energy moved: "idle" when nothing was
\* charged.
ChargeBranchLabelByEnergy(c, row, soc, pv, load) ==
    LET available_capacity == QSub(c.capacity, soc)
        max_charge == QMin(QMul(c.max_power, dt), available_capacity)
        surplus == QMax(QSub(pv, load), Zero)
        from_pv == QMin(max_charge, surplus)
        from_grid == QSub(max_charge, from_pv)
        charge_mwh == QAdd(from_pv, from_grid)
        pv_used == QAdd(from_pv, QMin(load, pv))
    IN  Record(row, QAdd(soc, QMul(charge_mwh, c.efficiency)),
               IF QLt(Zero, charge_mwh) THEN "charge" ELSE "idle",
               charge_mwh, Zero, from_pv, from_grid, Zero, Zero, QMax(QSub(pv, pv_used), Zero))

\* The charge branch shared by both heuristics: fill what power and free
\* capacity allow, PV surplus first, the rest from the grid; efficiency is
\* applied to the energy entering soc.
ChargeBranch(c, row, soc, pv, load) ==
    LET available_capacity == QSub(c.capacity, soc)
        max_charge == QMin(QMul(c.max_power, dt), available_capacity)
        surplus == QMax(QSub(pv, load), Zero)
        from_pv == QMin(max_charge, surplus)
        from_grid == QSub(max_charge, from_pv)
        charge_mwh == QAdd(from_pv, from_grid)
        pv_used == QAdd(from_pv, QMin(load, pv))
    IN  Record(row, QAdd(soc, QMul(charge_mwh, c.efficiency)), "charge",
               charge_mwh, Zero, from_pv, from_grid, Zero, Zero, QMax(QSub(pv, pv_used), Zero))

\* The discharge branch shared by both heuristics: empty what power and soc
\* allow, the load first, the rest to the grid.
DischargeBranch(c, row, soc, pv, load) ==
    LET max_discharge == QMin(QMul(c.max_power, dt), soc)
        to_load == QMin(max_discharge, load)
        to_grid == QSub(max_discharge, to_load)
        discharge_mwh == QAdd(to_load, to_grid)
        pv_used == QMin(load, pv)
    IN  Record(row, QSub(soc, discharge_mwh), "discharge",
               Zero, discharge_mwh, Zero, Zero, to_load, to_grid, QMax(QSub(pv, pv_used), Zero))

\* The idle branch: PV serves the load, the surplus is exported.
IdleBranch(c, row, soc, pv, load) ==
    Record(row, soc, "idle", Zero, Zero, Zero, Zero, Zero, Zero,
           QMax(QSub(pv, QMin(load, pv)), Zero))

\* ---------------------------------------------- quantile thresholds
RECURSIVE Insert(_, _)
Insert(s, x) ==
    IF s = <<>> THEN <<x>>
    ELSE IF QLe(x, Head(s)) THEN <<x>> \o s
    ELSE <<Head(s)>> \o Insert(Tail(s), x)

RECURSIVE SortQ(_)
SortQ(s) == IF s = <<>> THEN <<>> ELSE Insert(SortQ(Tail(s)), Head(s))

\* Series.quantile(q) of a non-empty day, linear interpolation between the
\* two order statistics around position q * (n - 1).
Quantile(prices, q) ==
    LET v == SortQ(prices)
        n == Len(v)
        pos == QMul(q, QInt(n - 1))
        lo == QFloor(pos)
        frac == QSub(pos, QInt(lo))
    IN  IF lo + 1 >= n THEN v[n]
        ELSE QAdd(v[lo + 1], QMul(QSub(v[lo + 2], v[lo + 1]), frac))

DayPrices(day) == [i \in 1..Len(day) |-> day[i].price_eur_per_mwh]

\* The quantile rule with the thresholds included: charge at price <= buy,
\* discharge at price >= sell.
ThresholdRecordInclusive(c, row, soc, buy, sell, pv, load) ==
    IF QLe(row.price_eur_per_mwh, buy) THEN ChargeBranch(c, row, soc, pv, load)
    ELSE IF QLe(sell, row.price_eur_per_mwh) THEN DischargeBranch(c, row, soc, pv, load)
    ELSE IdleBranch(c, row, soc, pv, load)

\* One row of ThresholdBasedSimulator.simulate_day.
ThresholdRecord(c, row, soc, buy, sell, pv, load) ==
    IF QLt(row.price_eur_per_mwh, buy) THEN ChargeBranch(c, row, soc, pv, load)
    ELSE IF QLt(sell, row.price_eur_per_mwh) THEN DischargeBranch(c, row, soc, pv, load)
    ELSE IdleBranch(c, row, soc, pv, load)

\* One row of RuleBasedSimulator.simulate_day (simple_rule.py): the quantile
\* rule without PV and load, and a record of six fields.
SimpleRecord(c, row, soc, buy, sell) ==
    LET price == row.price_eur_per_mwh
        charge_mwh == IF QLt(price, buy)
                      THEN QMin(QMul(c.max_power, dt), QSub(c.capacity, soc))
                      ELSE Zero
        discharge_mwh == IF ~QLt(price, buy) /\ QLt(sell, price)
                         THEN QMin(QMul(c.max_power, dt), soc)
                         ELSE Zero
        action == IF QLt(price, buy) THEN "charge"
                  ELSE IF QLt(sell, price) THEN "discharge" ELSE "idle"
    IN  [timestamp |-> row.timestamp,
         price_eur_per_mwh |-> price,
         soc |-> QSub(QAdd(soc, QMul(charge_mwh, c.efficiency)), discharge_mwh),
         action |-> action,
         charge_mwh |-> charge_mwh,
         discharge_mwh |-> discharge_mwh]

\* The window rule testing only the start of each window.
WindowRecordOpenEnded(c, row, soc, pv, load) ==
    LET hour == row.timestamp.hour
    IN  IF c.buy_hours[1] <= hour
        THEN ChargeBranch(c, row, soc, pv, load)
        ELSE IF c.sell_hours[1] <= hour
        THEN DischargeBranch(c, row, soc, pv, load)
        ELSE IdleBranch(c, row, soc, pv, load)

\* One row of TimeWindowRuleBasedSimulator.simulate_day.
WindowRecord(c, row, soc, pv, load) ==
    LET hour == row.timestamp.hour
    IN  IF c.buy_hours[1] <= hour /\ hour < c.buy_hours[2]
        THEN ChargeBranch(c, row, soc, pv, load)
        ELSE IF c.sell_hours[1] <= hour /\ hour < c.sell_hours[2]
        THEN DischargeBranch(c, row, soc, pv, load)
        ELSE IdleBranch(c, row, soc, pv, load)

\* The row loop without the final "self.soc = soc".
RECURSIVE HeuristicLoopNoStore(_, _, _, _, _, _)
HeuristicLoopNoStore(self, day, i, soc, buy, sell) ==
    IF i > Len(day) THEN [self |-> self, raised |-> "no"]
    ELSE IF ~(HasLabel(self.pv_series, day[i].idx) /\ HasLabel(self.load_series, day[i].idx))
    THEN [self |-> self, raised |-> "KeyError"]
    ELSE LET pv == Loc(self.pv_series, day[i].idx)
             load == Loc(self.load_series, day[i].idx)
             rec == IF self.kind = "threshold"
                    THEN ThresholdRecord(self.cfg, day[i], soc, buy, sell, pv, load)
                    ELSE IF self.kind = "simple"
                    THEN SimpleRecord(self.cfg, day[i], soc, buy, sell)
                    ELSE WindowRecord(self.cfg, day[i], soc, pv, load)
         IN  HeuristicLoopNoStore([self EXCEPT !.results = Append(@, rec)],
                                  day, i + 1, rec.soc, buy, sell)

\* The row loop of the heuristics from row i on, soc the local running
\* value.  Each row looks up pv and load first (a missing label raises
\* KeyError out of the loop, leaving the records appended so far and
\* self.soc as they are), then appends its record; self.soc is assigned
\* once, after the last row.
RECURSIVE HeuristicLoop(_, _, _, _, _, _)
HeuristicLoop(self, day, i, soc, buy, sell) ==
    IF i > Len(day) THEN [self |-> [self EXCEPT !.soc = soc], raised |-> "no"]
    ELSE IF ~(HasLabel(self.pv_series, day[i].idx) /\ HasLabel(self.load_series, day[i].idx))
    THEN [self |-> self, raised |-> "KeyError"]
    ELSE LET pv == Loc(self.pv_series, day[i].idx)
             load == Loc(self.load_series, day[i].idx)
             rec == IF self.kind = "threshold"
                    THEN ThresholdRecord(self.cfg, day[i], soc, buy, sell, pv, load)
                    ELSE IF self.kind = "simple"
                    THEN SimpleRecord(self.cfg, day[i], soc, buy, sell)
                    ELSE WindowRecord(self.cfg, day[i], soc, pv, load)
         IN  HeuristicLoop([self EXCEPT !.results = Append(@, rec)],
                           day, i + 1, rec.soc, buy, sell)

\* ThresholdBasedSimulator.simulate_day.
ThresholdSimulateDay(self, day) ==
    HeuristicLoop(self, day, 1, self.soc,
                  Quantile(DayPrices(day), self.cfg.buy_threshold),
                  Quantile(DayPrices(day), self.cfg.sell_threshold))

\* RuleBasedSimulator.simulate_day (simple_rule.py).
SimpleSimulateDay(self, day) ==
    HeuristicLoop(self, day, 1, self.soc,
                  Quantile(DayPrices(day), self.cfg.buy_threshold),
                  Quantile(DayPrices(day), self.cfg.sell_threshold))

\* TimeWindowRuleBasedSimulator.simulate_day.
WindowSimulateDay(self, day) ==
    HeuristicLoop(self, day, 1, self.soc, Zero, Zero)

\* ------------------------------------------------- the linear program
\* LPBasedSimulator.simulate_day builds one linear program per day and hands
\* it to the solver.  With charge measured in units of ChargeStep, discharge
\* in units of DischargeStep = efficiency^2 * ChargeStep and soc in units of
\* efficiency * dt * ChargeStep, the energy balance reads soc' = soc +
\* charge - discharge and every other constraint is a bound on one variable
\* or on a sum of two that share a source: a flow problem on a network, whose
\* vertices are whole numbers of units whenever the bounds are.  The
\* configurations and series above keep the bounds whole, so the search
\* below over the whole-unit points finds an optimum of the program itself.
ChargeStep(c) ==
    IF ~QLt(Zero, c.max_power) THEN Half
    ELSE IF QLe(c.efficiency, QInt(1)) THEN QMul(c.max_power, dt)
    ELSE QDiv(QMul(c.max_power, dt), QMul(c.efficiency, c.efficiency))

DischargeStep(c) == QMul(ChargeStep(c), QMul(c.efficiency, c.efficiency))

\* The multiples of step in (0, hi] and hi itself: variables that cannot be 0
\* unless their bound is.
GridPositive(step, hi) ==
    IF QLt(hi, Zero) THEN {}
    ELSE { QMul(QInt(k), step) : k \in 1..QFloor(QDiv(hi, step)) } \cup {hi}

\* The multiples of step in [0, hi], and the bound hi itself.
Grid(step, hi) ==
    IF QLt(hi, Zero) THEN {}
    ELSE { QMul(QInt(k), step) : k \in 0..QFloor(QDiv(hi, step)) } \cup {hi}

\* The values of (charge_from_pv, charge_from_grid, export_pv_to_grid,
\* discharge, soc[t + 1]) that satisfy the constraints of step t, given
\* soc[t] = s.
LPOptions(c, s, pv, load) ==
    LET surplus == QMax(QSub(pv, load), Zero)
        net_surplus == QSub(pv, load)
        cap_dt == QMul(c.max_power, dt)
        next(o) == QSub(QAdd(s, QMul(QMul(QAdd(o.charge_from_pv, o.charge_from_grid),
                                         c.efficiency), dt)),
                        QMul(QDiv(o.discharge, c.efficiency), dt))
        raw == [charge_from_pv : Grid(ChargeStep(c), QMin(surplus, cap_dt)),
                charge_from_grid : Grid(ChargeStep(c), cap_dt),
                export_pv_to_grid : Grid(ChargeStep(c), surplus),
                discharge : Grid(DischargeStep(c), cap_dt)]
        ok(o) ==
            LET charge == QAdd(o.charge_from_pv, o.charge_from_grid)
            IN  /\ QLe(QAdd(o.charge_from_pv, o.export_pv_to_grid), surplus)
                /\ QLe(o.charge_from_grid, cap_dt)
                /\ QLe(charge, cap_dt)
                /\ QLe(o.discharge, cap_dt)
                /\ QLe(Zero, next(o))
                /\ QLe(next(o), c.capacity)
                /\ (QLt(Zero, net_surplus) => QLe(charge, net_surplus))
                /\ (QLt(Zero, load) => QLe(o.discharge, load))
    IN  { [charge_from_pv |-> o.charge_from_pv,
           charge_from_grid |-> o.charge_from_grid,
           export_pv_to_grid |-> o.export_pv_to_grid,
           discharge |-> o.discharge,
           soc |-> next(o)] : o \in { x \in raw : ok(x) } }

\* The term of the objective for one step: discharge revenue + PV export
\* revenue - grid cost - degradation.
StepProfit(c, price, o) ==
    LET charge == QAdd(o.charge_from_pv, o.charge_from_grid)
        revenue == QMul(QMul(o.discharge, c.efficiency), price)
        pv_export_revenue == QMul(o.export_pv_to_grid, price)
        grid_cost == QMul(o.charge_from_grid, QAdd(price, c.grid_fee))
        degradation == QMul(c.degradation_cost, QAdd(charge, o.discharge))
    IN  QSub(QSub(QAdd(revenue, pv_export_revenue), grid_cost), degradation)

\* The steps only interact through soc and the objective is a sum over the
\* steps, so among the options of a step that lead to the same soc[t + 1]
\* an optimal plan uses one of maximal StepProfit: one such option is kept
\* per value of soc[t + 1].
LPBest(c, s, pv, load, price) ==
    LET opts == LPOptions(c, s, pv, load)
    IN  { CHOOSE o \in opts :
             /\ o.soc = x
             /\ \A q \in opts :
                   q.soc = x => QLe(StepProfit(c, price, q), StepProfit(c, price, o)) :
          x \in { o.soc : o \in opts } }

\* The candidate plans for rows i.. of the day from soc s: one option per
\* row, every constraint satisfied.  Empty exactly when the program is
\* infeasible.
RECURSIVE LPPlans(_, _, _, _)
LPPlans(self, day, i, s) ==
    IF i > Len(day) THEN { <<>> }
    ELSE UNION { { <<o>> \o rest : rest \in LPPlans(self, day, i + 1, o.soc) } :
                 o \in LPBest(self.cfg, s, Loc(self.pv_series, day[i].idx),
                              Loc(self.load_series, day[i].idx),
                              day[i].price_eur_per_mwh) }

\* The objective, summed over the day.
RECURSIVE LPProfit(_, _, _, _)
LPProfit(c, day, plan, i) ==
    IF i > Len(day) THEN Zero
    ELSE QAdd(StepProfit(c, day[i].price_eur_per_mwh, plan[i]),
              LPProfit(c, day, plan, i + 1))

\* problem.solve on cp.Minimize(profit): a plan of minimal profit.
LPSolveWorst(self, day, plans) ==
    LET vals == { LPProfit(self.cfg, day, p, 1) : p \in plans }
        worst == CHOOSE v \in vals : \A w \in vals : QLe(v, w)
    IN  CHOOSE p \in plans : LPProfit(self.cfg, day, p, 1) = worst

\* problem.solve: a plan of maximal profit among the feasible ones.  The
\* solver is deterministic: the same program yields the same plan.
LPSolve(self, day, plans) ==
    LET vals == { LPProfit(self.cfg, day, p, 1) : p \in plans }
        best == CHOOSE v \in vals : \A w \in vals : QLe(w, v)
    IN  CHOOSE p \in plans : LPProfit(self.cfg, day, p, 1) = best

\* The threshold of the action label (1e-5).
ActionEps == <<1, 100000>>

\* The record of row i with soc.value[i] (the soc the step starts from) in
\* place of soc.value[i + 1].
LPRecordSocAtStart(self, day, plan, i) ==
    LET o == plan[i]
        load == Loc(self.load_series, day[i].idx)
        charge == QAdd(o.charge_from_pv, o.charge_from_grid)
        action == IF QLt(ActionEps, charge) THEN "charge"
                  ELSE IF QLt(ActionEps, o.discharge) THEN "discharge"
                  ELSE "idle"
        to_load == QMin(o.discharge, load)
        to_grid == QMax(QSub(o.discharge, to_load), Zero)
    IN  Record(day[i], IF i = 1 THEN self.soc ELSE plan[i - 1].soc, action,
               charge, o.discharge, o.charge_from_pv, o.charge_from_grid,
               to_load, to_grid, o.export_pv_to_grid)

\* The record of row i with the label tested on discharge first.
LPRecordDischargeFirst(self, day, plan, i) ==
    LET o == plan[i]
        load == Loc(self.load_series, day[i].idx)
        charge == QAdd(o.charge_from_pv, o.charge_from_grid)
        action == IF QLt(ActionEps, o.discharge) THEN "discharge"
                  ELSE IF QLt(ActionEps, charge) THEN "charge"
                  ELSE "idle"
        to_load == QMin(o.discharge, load)
        to_grid == QMax(QSub(o.discharge, to_load), Zero)
    IN  Record(day[i], o.soc, action, charge, o.discharge,
               o.charge_from_pv, o.charge_from_grid, to_load, to_grid,
               o.export_pv_to_grid)

\* The record of row i of a solved day.
LPRecord(self, day, plan, i) ==
    LET o == plan[i]
        load == Loc(self.load_series, day[i].idx)
        charge == QAdd(o.charge_from_pv, o.charge_from_grid)
        action == IF QLt(ActionEps, charge) THEN "charge"
                  ELSE IF QLt(ActionEps, o.discharge) THEN "discharge"
                  ELSE "idle"
        to_load == QMin(o.discharge, load)
        to_grid == QMax(QSub(o.discharge, to_load), Zero)
    IN  Record(day[i], o.soc, action, charge, o.discharge,
               o.charge_from_pv, o.charge_from_grid, to_load, to_grid,
               o.export_pv_to_grid)

\* simulate_day with the status test after the assignments: the plan found
\* is stored even when the solver reports a status that is not optimal.
LPSimulateDayLateCheck(self, day, solver_ok) ==
    IF \E i \in 1..Len(day) :
          ~(HasLabel(self.pv_series, day[i].idx) /\ HasLabel(self.load_series, day[i].idx))
    THEN [self |-> self, raised |-> "KeyError"]
    ELSE LET plans == LPPlans(self, day, 1, self.soc)
         IN  IF plans = {}
             THEN [self |-> self, raised |-> "ValueError"]
             ELSE LET plan == LPSolve(self, day, plans)
                  IN  [self |-> [self EXCEPT
                                   !.soc = plan[Len(day)].soc,
                                   !.results = @ \o [i \in 1..Len(day) |->
                                                       LPRecord(self, day, plan, i)]],
                       raised |-> IF solver_ok THEN "no" ELSE "ValueError"]

\* LPBasedSimulator.simulate_day.  The series are indexed with all the day's
\* labels at once (KeyError if one is missing); a status other than optimal
\* raises ValueError; only then soc and results are assigned.  solver_ok is
\* the solver's own outcome on a feasible program: it may stop short of the
\* tolerances and report a status that is not "optimal".
LPSimulateDay(self, day, solver_ok) ==
    IF \E i \in 1..Len(day) :
          ~(HasLabel(self.pv_series, day[i].idx) /\ HasLabel(self.load_series, day[i].idx))
    THEN [self |-> self, raised |-> "KeyError"]
    ELSE IF ~solver_ok THEN [self |-> self, raised |-> "ValueError"]
    ELSE LET plans == LPPlans(self, day, 1, self.soc)
         IN  IF plans = {}
             THEN [self |-> self, raised |-> "ValueError"]
             ELSE LET plan == LPSolve(self, day, plans)
                  IN  [self |-> [self EXCEPT
                                   !.soc = plan[Len(day)].soc,
                                   !.results = @ \o [i \in 1..Len(day) |->
                                                       LPRecord(self, day, plan, i)]],
                       raised |-> "no"]

\* simulate_day of the object's class.
simulate_day(self, day, solver_ok) ==
    IF self.kind = "threshold" THEN ThresholdSimulateDay(self, day)
    ELSE IF self.kind = "simple" THEN SimpleSimulateDay(self, day)
    ELSE IF self.kind = "window" THEN WindowSimulateDay(self, day)
    ELSE LPSimulateDay(self, day, solver_ok)

\* ---------------------------------------------------- the day loop
\* The distinct dates of a frame, ascending (groupby sorts its keys).
FrameDates(price_df) == { price_df[i].timestamp.date : i \in 1..Len(price_df) }

RECURSIVE Ascending(_)
Ascending(S) ==
    IF S = {} THEN <<>>
    ELSE LET m == CHOOSE x \in S : \A y \in S : x <= y
         IN  <<m>> \o Ascending(S \ {m})

IsDate(row, d) == row.timestamp.date = d

\* Grouping with the keys in order of first appearance (groupby(sort=False)).
RECURSIVE FirstSeen(_)
FirstSeen(price_df) ==
    IF price_df = <<>> THEN <<>>
    ELSE LET d == Head(price_df).timestamp.date
         IN  <<d>> \o FirstSeen(SelectSeq(Tail(price_df), LAMBDA r : ~IsDate(r, d)))

GroupByFirstSeen(price_df) ==
    LET keys == FirstSeen(price_df)
    IN  [k \in 1..Len(keys) |-> SelectSeq(price_df, LAMBDA r : IsDate(r, keys[k]))]

\* price_df.groupby(price_df["timestamp"].dt.date): one group per distinct
\* date, keys ascending, each group the frame's rows of that date in frame
\* order with their labels.
GroupByDate(price_df) ==
    LET keys == Ascending(FrameDates(price_df))
    IN  [k \in 1..Len(keys) |-> SelectSeq(price_df, LAMBDA r : IsDate(r, keys[k]))]

\* run_simulation as one fold: simulate_day per group in order, an exception
\* ending the loop.
RECURSIVE RunFold(_, _, _)
RunFold(self, gs, solver_ok) ==
    IF gs = <<>> THEN [self |-> self, raised |-> "no"]
    ELSE LET out == simulate_day(self, Head(gs), solver_ok)
         IN  IF out.raised # "no" THEN out
             ELSE RunFold(out.self, Tail(gs), solver_ok)

\* --------------------------------------------------- calculate_profit
\* The running sums of a column (Series.cumsum).
RECURSIVE CumSumFrom(_, _, _)
CumSumFrom(col, i, acc) ==
    IF i > Len(col) THEN <<>>
    ELSE <<QAdd(acc, col[i])>> \o CumSumFrom(col, i + 1, QAdd(acc, col[i]))

\* Running sums that leave the first row out of the later ones.
CumSumSkipFirst(col) ==
    IF col = <<>> THEN <<>> ELSE <<col[1]>> \o CumSumFrom(col, 2, Zero)

CumSum(col) == CumSumFrom(col, 1, Zero)

\* The interval_profit column after "df.at[0, ...] -= pv_setup_cost_eur":
\* the row labelled 0 is the first row of the frame to_dataframe() builds.
DeductSetupCost(col, pv_setup_cost_eur) ==
    IF QLt(Zero, pv_setup_cost_eur)
    THEN [col EXCEPT ![1] = QSub(@, pv_setup_cost_eur)]
    ELSE col

\* to_dataframe(): a new table, one row per record, one column per field.
to_dataframe(self) == self.results

\* df.get("pv_export_mwh", 0.0): the column, or 0.0 when the table lacks it.
PvExport(row) ==
    IF "pv_export_mwh" \in DOMAIN row THEN row.pv_export_mwh ELSE Zero

\* The columns calculate_profit reads with df[...]: a table without one of
\* them raises KeyError at the first such read.
HasColumns(df) ==
    \A i \in 1..Len(df) :
        {"discharge_mwh", "price_eur_per_mwh", "from_grid_mwh", "charge_mwh"}
            \subseteq DOMAIN df[i]

\* The table as calculate_profit leaves it when from_grid_mwh is missing:
\* the three revenue columns are already assigned when the read of
\* df["from_grid_mwh"] raises.
RevenueColumns(df, efficiency) ==
    [i \in 1..Len(df) |->
        LET revenue_battery ==
                QMul(QMul(df[i].discharge_mwh, efficiency), df[i].price_eur_per_mwh)
            revenue_pv_export == QMul(PvExport(df[i]), df[i].price_eur_per_mwh)
        IN  [record |-> df[i],
             revenue_battery |-> revenue_battery,
             revenue_pv_export |-> revenue_pv_export,
             revenue |-> QAdd(revenue_battery, revenue_pv_export)]]

\* calculate_profit that pays the discharged energy in full, without the
\* efficiency factor.
calculate_profitGross(df, efficiency, grid_fee_per_mwh, degradation_cost_per_mwh, pv_setup_cost_eur) ==
    LET N == 1..Len(df)
        revenue_battery == [i \in N |->
            QMul(df[i].discharge_mwh, df[i].price_eur_per_mwh)]
        revenue_pv_export == [i \in N |->
            QMul(PvExport(df[i]), df[i].price_eur_per_mwh)]
        revenue == [i \in N |-> QAdd(revenue_battery[i], revenue_pv_export[i])]
        cost == [i \in N |->
            QMul(df[i].from_grid_mwh, QAdd(df[i].price_eur_per_mwh, grid_fee_per_mwh))]
        degradation == [i \in N |->
            QMul(degradation_cost_per_mwh, QAdd(df[i].charge_mwh, df[i].discharge_mwh))]
        interval_profit == DeductSetupCost(
            [i \in N |-> QSub(QSub(revenue[i], cost[i]), degradation[i])],
            pv_setup_cost_eur)
        cumulative_profit == CumSum(interval_profit)
        cumulative_degradation == CumSum(degradation)
        cumulative_grid_cost == CumSum(cost)
        cumulative_pv_revenue == CumSum(revenue_pv_export)
    IN  [i \in N |->
            [record |-> df[i],
             revenue_battery |-> revenue_battery[i],
             revenue_pv_export |-> revenue_pv_export[i],
             revenue |-> revenue[i],
             cost |-> cost[i],
             degradation |-> degradation[i],
             interval_profit |-> interval_profit[i],
             cumulative_profit |-> cumulative_profit[i],
             cumulative_degradation |-> cumulative_degradation[i],
             cumulative_grid_cost |-> cumulative_grid_cost[i],
             cumulative_pv_revenue |-> cumulative_pv_revenue[i]]]

\* calculate_profit on the frame of a non-empty record list that has the
\* columns it reads.  The columns are assigned on the table it is given,
\* and that table is what it returns.
calculate_profit(df, efficiency, grid_fee_per_mwh, degradation_cost_per_mwh, pv_setup_cost_eur) ==
    LET N == 1..Len(df)
        revenue_battery == [i \in N |->
            QMul(QMul(df[i].discharge_mwh, efficiency), df[i].price_eur_per_mwh)]
        revenue_pv_export == [i \in N |->
            QMul(PvExport(df[i]), df[i].price_eur_per_mwh)]
        revenue == [i \in N |-> QAdd(revenue_battery[i], revenue_pv_export[i])]
        cost == [i \in N |->
            QMul(df[i].from_grid_mwh, QAdd(df[i].price_eur_per_mwh, grid_fee_per_mwh))]
        degradation == [i \in N |->
            QMul(degradation_cost_per_mwh, QAdd(df[i].charge_mwh, df[i].discharge_mwh))]
        interval_profit == DeductSetupCost(
            [i \in N |-> QSub(QSub(revenue[i], cost[i]), degradation[i])],
            pv_setup_cost_eur)
        cumulative_profit == CumSum(interval_profit)
        cumulative_degradation == CumSum(degradation)
        cumulative_grid_cost == CumSum(cost)
        cumulative_pv_revenue == CumSum(revenue_pv_export)
    IN  [i \in N |->
            [record |-> df[i],
             revenue_battery |-> revenue_battery[i],
             revenue_pv_export |-> revenue_pv_export[i],
             revenue |-> revenue[i],
             cost |-> cost[i],
             degradation |-> degradation[i],
             interval_profit |-> interval_profit[i],
             cumulative_profit |-> cumulative_profit[i],
             cumulative_degradation |-> cumulative_degradation[i],
             cumulative_grid_cost |-> cumulative_grid_cost[i],
             cumulative_pv_revenue |-> cumulative_pv_revenue[i]]]

\* One-time capital costs calculate_profit is called with.
SetupCosts == { Zero, QInt(5) }

\* ------------------------------------------------------ state machine
VARIABLES
    self,           \* the strategy object
    pc,             \* "ready" | "running" | "returned" | "raised" |
                    \* "reported" | "failed" (calculate_profit raised)
    groups,         \* run_simulation: the day groups still to simulate
    calls,          \* history: the simulate_day calls of the current run
    run_input,      \* history: the frame of the current run
    runs,           \* history: run_simulation calls since construction / reset
    pre,            \* history: the object before the last simulate_day call
    last_day,       \* history: the rows of the last simulate_day call
    raised,         \* history: what the last simulate_day call raised
    rows,           \* rows handed to run_simulation so far
    resets,         \* reset() calls so far
    result_df,      \* what calculate_profit returned
    pv_setup_cost_eur, \* the capital cost it was called with
    df,             \* the table the caller handed to calculate_profit
    fleet           \* strategy objects run side by side on shared inputs

vars == <<self, pc, groups, calls, run_input, runs, pre, last_day, raised,
          rows, resets, result_df, pv_setup_cost_eur, df, fleet>>

\* The objects constructed: every class with the documented configurations
\* and every series pair, and each class with arguments outside the
\* documented domain.
Setups ==
    ({ <<k, CfgSmall, sp>> : k \in Kinds, sp \in SeriesPairs })
    \cup ({ <<k, c, <<None, None>>>> : k \in Kinds, c \in {CfgLarge, CfgNoPower} })
    \cup { <<"threshold", CfgGain, <<None, None>>>>,
           <<"window", CfgGain, <<None, None>>>>,
           <<"lp", CfgNegCap, <<None, None>>>>,
           <<"window", CfgBadWindow, <<None, None>>>>,
           <<"simple", CfgSmall, <<None, None>>>>,
           <<"window", CfgOverlap, <<None, None>>>>,
           <<"window", CfgLarge, <<PvSeries(Labels), LoadSeries(Labels)>>>>,
           <<"lp", CfgNoPower, <<PvSeries(Labels), LoadSeries(Labels)>>>>,
           <<"lp", CfgPvFee, <<PvSeries(Labels), LoadSeries(Labels)>>>> }

\* No objects run side by side.
NoFleet == <<>>

Init ==
    /\ \E su \in Setups : self = Construct(su[1], su[2], su[3])
    /\ pc = "ready"
    /\ groups = <<>>
    /\ calls = <<>>
    /\ run_input = <<>>
    /\ runs = 0
    /\ pre = self
    /\ last_day = <<>>
    /\ raised = "no"
    /\ rows = 0
    /\ resets = 0
    /\ result_df = <<>>
    /\ pv_setup_cost_eur = Zero
    /\ df = <<>>
    /\ fleet = NoFleet

\* run_simulation that calls reset() before the loop.
RunSimulationResets ==
    /\ pc \in {"ready", "returned"}
    /\ \E n \in 1..(MaxRows - rows) : \E price_df \in Frames(n) :
          /\ groups' = GroupByDate(price_df)
          /\ run_input' = price_df
          /\ rows' = rows + n
    /\ pc' = "running"
    /\ calls' = <<>>
    /\ runs' = runs + 1
    /\ self' = reset(self)
    /\ UNCHANGED <<pre, last_day, raised, resets, result_df, pv_setup_cost_eur,
                   df, fleet>>

\* run_simulation(price_df) is called: the frame is grouped by date.
RunSimulation ==
    /\ pc \in {"ready", "returned"}
    /\ \E n \in 1..(MaxRows - rows) : \E price_df \in Frames(n) :
          /\ groups' = GroupByDate(price_df)
          /\ run_input' = price_df
          /\ rows' = rows + n
    /\ pc' = "running"
    /\ calls' = <<>>
    /\ runs' = runs + 1
    /\ UNCHANGED <<self, pre, last_day, raised, resets, result_df, pv_setup_cost_eur,
                   df, fleet>>

\* The loop body: simulate_day on the next group.  An exception leaves the
\* loop and run_simulation; after the last group run_simulation returns.
SimulateDay ==
    /\ pc = "running"
    /\ \E solver_ok \in BOOLEAN :
          LET out == simulate_day(self, Head(groups), solver_ok)
          IN  /\ self' = out.self
              /\ raised' = out.raised
              /\ pc' = IF out.raised # "no" THEN "raised"
                       ELSE IF Len(groups) > 1 THEN "running" ELSE "returned"
              /\ groups' = IF out.raised = "no" THEN Tail(groups) ELSE groups
    /\ pre' = self
    /\ last_day' = Head(groups)
    /\ calls' = Append(calls, [date |-> Head(groups)[1].timestamp.date,
                                soc |-> self.soc, nresults |-> Len(self.results)])
    /\ UNCHANGED <<run_input, runs, rows, resets, result_df, pv_setup_cost_eur,
                   df, fleet>>

\* reset() is called, between runs or after a run that raised.  (On an
\* object that has simulated nothing reset() assigns the values the fields
\* already hold; that call is left out.)
Reset ==
    /\ pc \in {"ready", "returned", "raised"}
    /\ resets < MaxResets
    /\ rows > 0
    /\ self' = reset(self)
    /\ pc' = "ready"
    /\ resets' = resets + 1
    /\ groups' = <<>>
    /\ calls' = <<>>
    /\ run_input' = <<>>
    /\ runs' = 0
    /\ pre' = reset(self)
    /\ last_day' = <<>>
    /\ raised' = "no"
    /\ UNCHANGED <<rows, result_df, pv_setup_cost_eur, df, fleet>>

\* main.run_simulation after the run: to_dataframe(), then calculate_profit
\* with the object's own parameters.  calculate_profit writes its columns
\* into the table it is given and returns that table; on a table without
\* from_grid_mwh it raises KeyError after the revenue columns are written.
CalculateProfit ==
    /\ pc = "returned"
    /\ \E cost \in SetupCosts :
          /\ pv_setup_cost_eur' = cost
          /\ IF HasColumns(to_dataframe(self))
             THEN /\ result_df' = calculate_profit(to_dataframe(self), self.cfg.efficiency,
                                                   self.cfg.grid_fee,
                                                   self.cfg.degradation_cost, cost)
                  /\ df' = result_df'
                  /\ pc' = "reported"
             ELSE /\ result_df' = result_df
                  /\ df' = RevenueColumns(to_dataframe(self), self.cfg.efficiency)
                  /\ pc' = "failed"
    /\ UNCHANGED <<self, groups, calls, run_input, runs, pre, last_day, raised,
                   rows, resets, fleet>>

Next ==
    \/ RunSimulation
    \/ SimulateDay
    \/ Reset
    \/ CalculateProfit

Spec == Init /\ [][Next]_vars

\* ------------------------------------------- the four-step price day
\* One battery (1 MWh, 0.5 MW, efficiency 0.9, degradation 10, grid fee 40,
\* no PV, no load) run by each class on one day of four quarter-hour steps
\* whose prices are 10 or 100.  With efficiency 0.9 the soc bounds are not
\* whole numbers of the program's units; the search of LPPlans then covers
\* the points where every flow is 0, a whole number of units or at its own
\* upper bound.
CfgScenario == Params(QInt(1), Half, <<9, 10>>, QInt(10), QInt(40), <<12, 14>>, <<19, 21>>)

ScenarioPrices == <<QInt(10), QInt(10), QInt(100), QInt(100)>>

ScenarioLevels == { ScenarioPrices[i] : i \in DOMAIN ScenarioPrices }

ScenarioFrames ==
    { [i \in DOMAIN ScenarioPrices |->
          [idx |-> i - 1,
           timestamp |-> [date |-> 1, hour |-> 12],
           price_eur_per_mwh |-> f[i]]] : f \in [DOMAIN ScenarioPrices -> ScenarioLevels] }

ScenarioInit ==
    /\ \E k \in Kinds \cup {"simple"} : self = Construct(k, CfgScenario, <<None, None>>)
    /\ pc = "ready"
    /\ groups = <<>>
    /\ calls = <<>>
    /\ run_input = <<>>
    /\ runs = 0
    /\ pre = self
    /\ last_day = <<>>
    /\ raised = "no"
    /\ rows = 0
    /\ resets = 0
    /\ result_df = <<>>
    /\ pv_setup_cost_eur = Zero
    /\ df = <<>>
    /\ fleet = NoFleet

\* run_simulation(price_df) on a four-step day.
RunScenario ==
    /\ pc = "ready"
    /\ \E price_df \in ScenarioFrames :
          /\ groups' = GroupByDate(price_df)
          /\ run_input' = price_df
          /\ rows' = rows + Len(price_df)
    /\ pc' = "running"
    /\ calls' = <<>>
    /\ runs' = runs + 1
    /\ UNCHANGED <<self, pre, last_day, raised, resets, result_df, pv_setup_cost_eur,
                   df, fleet>>

ScenarioNext ==
    \/ RunScenario
    \/ SimulateDay
    \/ CalculateProfit

ScenarioSpec == ScenarioInit /\ [][ScenarioNext]_vars

\* ------------------------------------------------ two objects at once
\* Two strategy objects constructed on the same price frame, the same
\* pv_series / load_series objects and the same default buy_hours /
\* sell_hours lists, their run_simulation loops interleaved day by day.
\* fleet holds the shared objects once (price_df, pv_series, load_series,
\* buy_hours, sell_hours) and, per object, what __init__ created for it
\* alone (soc, results), the day groups its loop still has to simulate and
\* the number of days it has simulated.
Both == {1, 2}

\* Object i as simulate_day sees it: its own fields, and the shared objects
\* its references lead to.
Deref(f, i) ==
    [f.sims[i] EXCEPT !.pv_series = f.pv_series,
                      !.load_series = f.load_series,
                      !.cfg.buy_hours = f.buy_hours,
                      !.cfg.sell_hours = f.sell_hours]

\* The stores of a simulate_day call with a results list that is one list
\* for the class: the records of the day are appended for the other object
\* too.
FleetStoreSharedResults(f, i, out) ==
    LET new == SubSeq(out.self.results, Len(f.sims[i].results) + 1, Len(out.self.results))
        j == CHOOSE x \in Both : x # i
    IN  [f EXCEPT !.sims[i] = out.self,
                  !.sims[j].results = @ \o new,
                  !.todo[i] = IF out.raised = "no" THEN Tail(@) ELSE <<>>,
                  !.done[i] = IF out.raised = "no" THEN @ + 1 ELSE @]

\* The stores of one simulate_day call of object i's loop, out being what
\* the call made of the object: the call assigns self.soc and self.results
\* of object i; whatever it left in the objects it shares is what the other
\* object finds.  An exception ends object i's loop.
FleetStore(f, i, out) ==
    [f EXCEPT !.sims[i] = out.self,
              !.pv_series = out.self.pv_series,
              !.load_series = out.self.load_series,
              !.buy_hours = out.self.cfg.buy_hours,
              !.sell_hours = out.self.cfg.sell_hours,
              !.todo[i] = IF out.raised = "no" THEN Tail(@) ELSE <<>>,
              !.done[i] = IF out.raised = "no" THEN @ + 1 ELSE @]

\* Two objects of any two classes, constructed with the same arguments on
\* the same inputs; both run_simulation calls have grouped the frame.
Fleets ==
    { [price_df |-> price_df,
       pv_series |-> sp[1], load_series |-> sp[2],
       buy_hours |-> CfgSmall.buy_hours, sell_hours |-> CfgSmall.sell_hours,
       sims |-> [i \in Both |-> Construct(ks[i], CfgSmall, sp)],
       todo |-> [i \in Both |-> GroupByDate(price_df)],
       done |-> [i \in Both |-> 0]] :
      price_df \in UNION { Frames(n) : n \in 1..MaxRows },
      sp \in { <<None, None>>, <<PvSeries(Labels), LoadSeries(Labels)>> },
      ks \in [Both -> Kinds] }

FleetInit ==
    /\ fleet \in Fleets
    /\ self = Construct("threshold", CfgSmall, <<None, None>>)
    /\ pc = "ready"
    /\ groups = <<>>
    /\ calls = <<>>
    /\ run_input = <<>>
    /\ runs = 0
    /\ pre = self
    /\ last_day = <<>>
    /\ raised = "no"
    /\ rows = 0
    /\ resets = 0
    /\ result_df = <<>>
    /\ pv_setup_cost_eur = Zero
    /\ df = <<>>

\* The loop of object i takes its next day: simulate_day on the next group
\* of its own run.
FleetSimulateDay(i) ==
    /\ fleet # NoFleet
    /\ fleet.todo[i] # <<>>
    /\ \E solver_ok \in BOOLEAN :
          \E obj \in {Deref(fleet, i)} :
              \E out \in {simulate_day(obj, Head(fleet.todo[i]), solver_ok)} :
                  fleet' = FleetStore(fleet, i, out)
    /\ UNCHANGED <<self, pc, groups, calls, run_input, runs, pre, last_day, raised,
                   rows, resets, result_df, pv_setup_cost_eur, df>>

FleetNext == \E i \in Both : FleetSimulateDay(i)

FleetSpec == FleetInit /\ [][FleetNext]_vars

\* ------------------------------------------------------------ claims
Recs == self.results
RecIdx == 1..Len(self.results)
PowerStep == QMul(self.cfg.max_power, dt)
HalfCapacity == QMul(Half, self.cfg.capacity)
InCapacity(x) == QLe(Zero, x) /\ QLe(x, self.cfg.capacity)
\* The object the constructor returned for this strategy.
Constructed == Construct(self.kind, self.cfg, <<self.pv_series, self.load_series>>)

\* C1: for a strategy constructed with capacity > 0, maxPower >= 0 and
\* 0 < efficiency <= 1, the stored soc and the soc of every record lie in
\* [0, capacity].
C1_SocWithinCapacity ==
    ValidParams(self.cfg) =>
        /\ InCapacity(self.soc)
        /\ \A i \in RecIdx : InCapacity(Recs[i].soc)

\* C1 witness: a valid strategy has recorded a step that filled the battery
\* to its capacity and a step that emptied it.
C1_Witness ==
    /\ ValidParams(self.cfg)
    /\ \E i \in RecIdx : Recs[i].soc = self.cfg.capacity /\ QLt(Zero, Recs[i].charge_mwh)
    /\ \E i \in RecIdx : Recs[i].soc = Zero /\ QLt(Zero, Recs[i].discharge_mwh)

\* C2: in every record of every strategy, 0 <= charge_mwh <= maxPower * 0.25
\* and 0 <= discharge_mwh <= maxPower * 0.25.
C2_PowerBounds ==
    \A i \in RecIdx :
        /\ QLe(Zero, Recs[i].charge_mwh) /\ QLe(Recs[i].charge_mwh, PowerStep)
        /\ QLe(Zero, Recs[i].discharge_mwh) /\ QLe(Recs[i].discharge_mwh, PowerStep)

\* C3: in every record of every strategy, charge_mwh > 0 and
\* discharge_mwh > 0 never hold together.
C3_ChargeDischargeExclusive ==
    \A i \in RecIdx :
        ~(QLt(Zero, Recs[i].charge_mwh) /\ QLt(Zero, Recs[i].discharge_mwh))

\* C4: in run_simulation on a freshly constructed strategy, the first
\* simulate_day call starts from soc = 0.5 * capacity, every later call
\* starts from the soc stored in the last record appended before it, and
\* when the run returns the calls were one per distinct date of the input,
\* in ascending date order.
C4_DaysInOrder ==
    (runs = 1 /\ resets = 0) =>
        /\ \A k \in 1..Len(calls) :
              IF k = 1 THEN calls[k].soc = HalfCapacity /\ calls[k].nresults = 0
              ELSE /\ calls[k].nresults \in RecIdx
                   /\ calls[k].nresults > calls[k - 1].nresults
                   /\ calls[k].soc = Recs[calls[k].nresults].soc
        /\ pc = "returned" =>
              [k \in 1..Len(calls) |-> calls[k].date] = Ascending(FrameDates(run_input))

\* C4 witness: a first run whose input lists the later date first has
\* returned after two days, the second starting from another soc.
C4_Witness ==
    /\ runs = 1 /\ resets = 0 /\ pc = "returned"
    /\ Len(calls) = 2
    /\ run_input[1].timestamp.date > run_input[Len(run_input)].timestamp.date
    /\ calls[2].soc # calls[1].soc

\* C5: a simulate_day call that returned appended one record per row of
\* its day, in row order, each with its row's timestamp and price, left the
\* earlier records as they were and set soc to the last appended record's.
C5_DayAppendsItsRows ==
    (raised = "no" /\ last_day # <<>>) =>
        LET m == Len(pre.results)
            n == Len(last_day)
        IN  /\ Len(Recs) = m + n
            /\ SubSeq(Recs, 1, m) = pre.results
            /\ \A i \in 1..n :
                  /\ Recs[m + i].timestamp = last_day[i].timestamp
                  /\ Recs[m + i].price_eur_per_mwh = last_day[i].price_eur_per_mwh
            /\ self.soc = Recs[m + n].soc

\* C5 witness: a day of two rows with different timestamps was simulated on
\* top of earlier records and moved soc.
C5_Witness ==
    /\ raised = "no" /\ Len(last_day) = 2
    /\ last_day[1].timestamp # last_day[2].timestamp
    /\ pre.results # <<>>
    /\ self.soc # pre.soc

\* C6: reset() twice leaves what reset() once leaves (soc = 0.5 * capacity,
\* no records), and a run_simulation that follows a reset() ends with the
\* records and soc of a freshly constructed strategy run on the same input.
C6_ResetThenRunIsFresh ==
    /\ reset(reset(self)) = reset(self)
    /\ reset(self).soc = HalfCapacity /\ reset(self).results = <<>>
    /\ (resets > 0 /\ runs = 1 /\ pc = "returned") =>
          self = RunFold(Constructed, GroupByDate(run_input), TRUE).self

\* C6 witness: after earlier simulation and a reset(), a run over two days
\* has returned.
C6_Witness ==
    /\ resets > 0 /\ runs = 1 /\ pc = "returned"
    /\ rows > Len(run_input)
    /\ Len(calls) = 2
    /\ Len(Recs) = 2

\* C7: when the LP solver's status is not optimal, simulate_day raises with
\* soc and records as they were before the call, run_simulation simulates no
\* later day, and the object is left as the days simulated before left it.
C7_LPFailureLeavesLastDay ==
    (self.kind = "lp" /\ raised = "ValueError") =>
        /\ pc = "raised"
        /\ self = pre
        /\ Head(groups) = last_day
        /\ runs = 1 =>
              LET gs == GroupByDate(run_input)
                  done == Len(gs) - Len(groups)
              IN  /\ Len(calls) = done + 1
                  /\ self = RunFold(Constructed, SubSeq(gs, 1, done), TRUE).self

\* C7 witness: the LP strategy simulated one day, and the solver failed on
\* the next.
C7_Witness ==
    /\ self.kind = "lp" /\ raised = "ValueError"
    /\ runs = 1 /\ Len(calls) = 2
    /\ Recs # <<>>
    /\ self.soc # HalfCapacity

\* C8: when simulate_day fails on a label missing from the PV or load
\* series, the records and soc are those from before the call.
C8_NoPartialDay ==
    raised = "KeyError" => (self.results = pre.results /\ self.soc = pre.soc)

\* C9: no strategy object holds an efficiency outside (0, 1], a capacity
\* <= 0 or, for the time-window strategy, a window with start > end.
C9_ConfigurationValidated ==
    /\ QLt(Zero, self.cfg.efficiency) /\ QLe(self.cfg.efficiency, QInt(1))
    /\ QLt(Zero, self.cfg.capacity)
    /\ self.kind = "window" => ValidWindows(self.cfg)

\* The sum of the first k entries of a column, last entry first.
RECURSIVE SumFirst(_, _)
SumFirst(col, k) == IF k = 0 THEN Zero ELSE QAdd(col[k], SumFirst(col, k - 1))

IntervalProfits == [i \in 1..Len(result_df) |-> result_df[i].interval_profit]

\* C10: in the frame calculate_profit returns, cumulative_profit[k] is the
\* sum of interval_profit[0..k]; the first interval_profit is revenue - cost
\* - degradation less the capital cost when that is > 0, and every other
\* interval_profit is revenue - cost - degradation.
C10_CumulativeIsPrefixSum ==
    pc = "reported" =>
        \A k \in 1..Len(result_df) :
            LET r == result_df[k]
                plain == QSub(QSub(r.revenue, r.cost), r.degradation)
            IN  /\ r.cumulative_profit = SumFirst(IntervalProfits, k)
                /\ r.interval_profit =
                      IF k = 1 /\ QLt(Zero, pv_setup_cost_eur)
                      THEN QSub(plain, pv_setup_cost_eur) ELSE plain

\* C10 witness: calculate_profit ran with a capital cost on three records
\* whose later interval profits are not zero.
C10_Witness ==
    /\ pc = "reported" /\ QLt(Zero, pv_setup_cost_eur)
    /\ Len(result_df) = 3
    /\ result_df[2].interval_profit # Zero
    /\ result_df[3].interval_profit # Zero

\* C11: in the frame calculate_profit returns, every step has revenue =
\* discharge_mwh * efficiency * price + pv_export_mwh * price, cost =
\* from_grid_mwh * (price + grid fee), degradation = degradation cost *
\* (charge_mwh + discharge_mwh) and interval_profit = revenue - cost -
\* degradation, the first step's less the capital cost when one is given,
\* whichever strategy produced the records.
C11_ProfitFormulas ==
    pc = "reported" =>
        /\ Len(result_df) = Len(Recs)
        /\ \A k \in 1..Len(result_df) :
              LET r == result_df[k]
                  rec == Recs[k]
                  price == rec.price_eur_per_mwh
                  net == QSub(QSub(r.revenue, r.cost), r.degradation)
              IN  /\ r.record = rec
                  /\ r.revenue = QAdd(QMul(QMul(rec.discharge_mwh, self.cfg.efficiency), price),
                                      QMul(rec.pv_export_mwh, price))
                  /\ r.cost = QMul(rec.from_grid_mwh, QAdd(price, self.cfg.grid_fee))
                  /\ r.degradation = QMul(self.cfg.degradation_cost,
                                          QAdd(rec.charge_mwh, rec.discharge_mwh))
                  /\ QAdd(r.interval_profit,
                          IF k = 1 /\ QLt(Zero, pv_setup_cost_eur)
                          THEN pv_setup_cost_eur ELSE Zero) = net

\* C11 witness: calculate_profit ran with a capital cost on the records of a
\* lossy battery that sold discharged energy, exported PV and bought from
\* the grid.
C11_Witness ==
    /\ pc = "reported" /\ QLt(Zero, pv_setup_cost_eur)
    /\ QLt(self.cfg.efficiency, QInt(1))
    /\ \E k \in 1..Len(result_df) :
          QLt(Zero, result_df[k].revenue) /\ QLt(Zero, Recs[k].discharge_mwh)
    /\ \E k \in 1..Len(result_df) : QLt(Zero, Recs[k].pv_export_mwh)
    /\ \E k \in 1..Len(result_df) : result_df[k].cost # Zero

\* The simulated run is the one of the four-step day with prices
\* 10, 10, 100, 100 on the 1 MWh / 0.5 MW / 0.9 battery.
OnScenarioDay ==
    /\ self.cfg = CfgScenario
    /\ runs = 1
    /\ DayPrices(run_input) = ScenarioPrices

\* C12: on that day the quantile strategy (buy 0.25, sell 0.75) records
\* action charge with 0 < charge_mwh <= 0.125 at the two steps of price 10
\* and action discharge with discharge_mwh > 0 at the two steps of price 100.
C12_ScenarioA ==
    (OnScenarioDay /\ self.kind = "threshold" /\ pc = "returned") =>
        /\ Len(Recs) = Len(ScenarioPrices)
        /\ \A i \in RecIdx :
              IF Recs[i].price_eur_per_mwh = QInt(10)
              THEN /\ Recs[i].action = "charge"
                   /\ QLt(Zero, Recs[i].charge_mwh)
                   /\ QLe(Recs[i].charge_mwh, <<1, 8>>)
              ELSE /\ Recs[i].action = "discharge"
                   /\ QLt(Zero, Recs[i].discharge_mwh)

\* The sum of the interval_profit column of a table calculate_profit returned.
TotalProfit(table) ==
    SumFirst([i \in 1..Len(table) |-> table[i].interval_profit], Len(table))

\* The records the quantile strategy, freshly constructed with the object's
\* parameters, leaves on the run's input.
QuantileRecords ==
    RunFold(Construct("threshold", self.cfg, <<None, None>>),
            GroupByDate(run_input), TRUE).self.results

\* The largest value the objective's term of one step takes when only the
\* power bounds 0 <= charge_from_grid, discharge <= max_power * dt limit the
\* flows (no PV): a sum of such terms bounds the objective of every feasible
\* plan from above.
StepBound(c, price) ==
    QAdd(QMax(Zero, QMul(QSub(Zero, QAdd(QAdd(price, c.grid_fee), c.degradation_cost)),
                         QMul(c.max_power, dt))),
         QMax(Zero, QMul(QSub(QMul(c.efficiency, price), c.degradation_cost),
                         QMul(c.max_power, dt))))

\* C13: on that day the total interval_profit calculate_profit gives the LP
\* strategy's records is >= the total it gives the quantile strategy's
\* records, both from soc = 0.5 * capacity; the LP plan recorded reaches the
\* upper bound of the objective, so it is an optimum of the program.
C13_ScenarioB ==
    (OnScenarioDay /\ self.kind = "lp" /\ pc = "reported") =>
        LET heuristic == calculate_profit(QuantileRecords, self.cfg.efficiency,
                                          self.cfg.grid_fee, self.cfg.degradation_cost,
                                          pv_setup_cost_eur)
            bound == SumFirst([i \in RecIdx |->
                                  StepBound(self.cfg, Recs[i].price_eur_per_mwh)],
                              Len(Recs))
        IN  /\ calls[1].soc = HalfCapacity
            /\ QLe(TotalProfit(heuristic), TotalProfit(result_df))
            /\ QAdd(TotalProfit(result_df), pv_setup_cost_eur) = bound

\* C13 witness: the LP strategy's run of that day was priced, it discharged
\* at a step of price 100 and earned more than the quantile strategy.
C13_Witness ==
    /\ OnScenarioDay /\ self.kind = "lp" /\ pc = "reported"
    /\ \E i \in RecIdx : QLt(Zero, Recs[i].discharge_mwh)
                            /\ Recs[i].price_eur_per_mwh = QInt(100)
    /\ QLt(TotalProfit(calculate_profit(QuantileRecords, self.cfg.efficiency,
                                        self.cfg.grid_fee, self.cfg.degradation_cost,
                                        pv_setup_cost_eur)),
           TotalProfit(result_df))

\* C14: a strategy constructed without PV and load series produces only
\* records with from_pv_mwh = 0, pv_export_mwh = 0 and to_load_mwh = 0.
C14_NoSeriesNoPvFlows ==
    (~self.pv_series.given /\ ~self.load_series.given) =>
        \A i \in RecIdx :
            "from_pv_mwh" \in DOMAIN Recs[i] =>
                /\ Recs[i].from_pv_mwh = Zero
                /\ Recs[i].pv_export_mwh = Zero
                /\ Recs[i].to_load_mwh = Zero

\* The day just simulated has a step whose load exceeds its PV: demand that
\* only a flow out of the battery could serve.
DayNeedsFlow ==
    \E i \in 1..Len(last_day) :
        /\ HasLabel(self.pv_series, last_day[i].idx)
        /\ HasLabel(self.load_series, last_day[i].idx)
        /\ QLt(Loc(self.pv_series, last_day[i].idx), Loc(self.load_series, last_day[i].idx))

\* C15: the LP strategy with max_power = 0, run on a day that needs a
\* nonzero flow, raises the optimization error and leaves no record of the
\* day.
C15_ScenarioD ==
    (self.kind = "lp" /\ self.cfg.max_power = Zero /\ DayNeedsFlow
        /\ raised # "KeyError") =>
        (raised = "ValueError" /\ self.results = pre.results)

\* C16: after calculate_profit the table the caller handed to it has the
\* columns and values to_dataframe() gave it, the strategy's records are
\* the ones the table was built from, and what was returned is what
\* calculate_profit yields on these inputs.
C16_ProfitIsPure ==
    pc \in {"reported", "failed"} =>
        /\ df = to_dataframe(self)
        /\ pc = "reported" =>
              result_df = calculate_profit(to_dataframe(self), self.cfg.efficiency,
                                           self.cfg.grid_fee, self.cfg.degradation_cost,
                                           pv_setup_cost_eur)

\* C17: whatever the interleaving of the two objects' simulate_day calls,
\* each object holds the records and soc it has when it simulates the same
\* days alone, and the shared price frame, series and window lists are as
\* they were given.
C17_InstancesIndependent ==
    fleet # NoFleet =>
        LET gs == GroupByDate(fleet.price_df)
            sp == <<fleet.pv_series, fleet.load_series>>
            alone(i) == RunFold(Construct(fleet.sims[i].kind, CfgSmall, sp),
                                SubSeq(gs, 1, fleet.done[i]), TRUE).self
        IN  /\ \A i \in Both :
                  /\ fleet.sims[i].results = alone(i).results
                  /\ fleet.sims[i].soc = alone(i).soc
            /\ fleet.pv_series \in {None, PvSeries(Labels)}
            /\ fleet.load_series \in {None, LoadSeries(Labels)}
            /\ fleet.buy_hours = CfgSmall.buy_hours
            /\ fleet.sell_hours = CfgSmall.sell_hours
            /\ \A i \in Both : \A k \in 1..Len(fleet.todo[i]) :
                  fleet.todo[i][k] = gs[Len(gs) - Len(fleet.todo[i]) + k]

\* C17 witness: two objects of different classes on shared PV and load
\* series; the second has simulated both its days while the first is
\* between its first day and its second.
C17_Witness ==
    /\ fleet # NoFleet
    /\ fleet.sims[1].kind # fleet.sims[2].kind
    /\ fleet.pv_series.given
    /\ fleet.done[1] = 1 /\ fleet.todo[1] # <<>>
    /\ fleet.done[2] = 2 /\ fleet.todo[2] = <<>>
    /\ \A i \in Both : fleet.sims[i].soc # HalfCapacity

\* The field set of a dispatch record.
DispatchFields ==
    {"timestamp", "price_eur_per_mwh", "soc", "action", "charge_mwh",
     "discharge_mwh", "from_pv_mwh", "from_grid_mwh", "to_load_mwh",
     "to_grid_mwh", "pv_export_mwh"}

\* C18: every record of every strategy class, RuleBasedSimulator of
\* simple_rule.py included, has exactly the dispatch fields, and
\* calculate_profit does not fail on the records of any of them.
C18_FullFieldSet ==
    /\ \A i \in RecIdx : DOMAIN Recs[i] = DispatchFields
    /\ pc # "failed"

\* The records the last simulate_day call appended, with the row, the soc
\* before the step and the PV and load of each.
LastN == Len(Recs) - Len(pre.results)
LastRec(i) == Recs[Len(pre.results) + i]
SocBefore(i) == IF i = 1 THEN pre.soc ELSE Recs[Len(pre.results) + i - 1].soc
LastPv(i) == Loc(self.pv_series, last_day[i].idx)
LastLoad(i) == Loc(self.load_series, last_day[i].idx)

\* C19: each record of a day of the quantile strategy follows the step
\* function: below the day's buy quantile it charges min(max_power * 0.25,
\* capacity - soc), from PV surplus first, and soc grows by efficiency *
\* charge; above the sell quantile it discharges min(max_power * 0.25, soc),
\* to the load first, and soc falls by the discharge; otherwise every
\* battery flow is 0 and soc is unchanged.
C19_QuantileStep ==
    (self.kind = "threshold" /\ last_day # <<>>) =>
        LET lower == Quantile(DayPrices(last_day), self.cfg.buy_threshold)
            upper == Quantile(DayPrices(last_day), self.cfg.sell_threshold)
        IN  \A i \in 1..LastN :
              LET r == LastRec(i)
                  price == last_day[i].price_eur_per_mwh
                  soc == SocBefore(i)
              IN  IF QLt(price, lower)
                  THEN /\ r.charge_mwh = QMin(QMul(self.cfg.max_power, dt),
                                              QSub(self.cfg.capacity, soc))
                       /\ r.from_pv_mwh = QMin(r.charge_mwh,
                                               QMax(QSub(LastPv(i), LastLoad(i)), Zero))
                       /\ r.from_grid_mwh = QSub(r.charge_mwh, r.from_pv_mwh)
                       /\ r.soc = QAdd(soc, QMul(self.cfg.efficiency, r.charge_mwh))
                       /\ r.discharge_mwh = Zero
                  ELSE IF QLt(upper, price)
                  THEN /\ r.discharge_mwh = QMin(QMul(self.cfg.max_power, dt), soc)
                       /\ r.to_load_mwh = QMin(r.discharge_mwh, LastLoad(i))
                       /\ r.to_grid_mwh = QSub(r.discharge_mwh, r.to_load_mwh)
                       /\ r.soc = QSub(soc, r.discharge_mwh)
                       /\ r.charge_mwh = Zero
                  ELSE /\ r.charge_mwh = Zero /\ r.discharge_mwh = Zero
                       /\ r.from_pv_mwh = Zero /\ r.from_grid_mwh = Zero
                       /\ r.to_load_mwh = Zero /\ r.to_grid_mwh = Zero
                       /\ r.soc = soc

\* C19 witness: the quantile strategy, with PV and load, has charged from PV
\* surplus, discharged to the load and stayed idle at a price equal to a
\* threshold of its day.
C19_Witness ==
    /\ self.kind = "threshold" /\ pc = "returned"
    /\ \E i \in RecIdx : QLt(Zero, Recs[i].charge_mwh) /\ QLt(Zero, Recs[i].from_pv_mwh)
    /\ \E i \in RecIdx : QLt(Zero, Recs[i].discharge_mwh) /\ QLt(Zero, Recs[i].to_load_mwh)
    /\ \E i \in 1..LastN :
          /\ LastRec(i).action = "idle"
          /\ last_day[i].price_eur_per_mwh =
                Quantile(DayPrices(last_day), self.cfg.sell_threshold)

InWindow(h, w) == w[1] <= h /\ h < w[2]

\* C20: in the time-window strategy a record has charge_mwh > 0 only at an
\* hour inside [buy_hours[0], buy_hours[1]) and discharge_mwh > 0 only at an
\* hour inside [sell_hours[0], sell_hours[1]); a step outside both windows
\* is idle with charge_mwh = discharge_mwh = 0, soc unchanged and
\* pv_export_mwh = max(pv - load, 0).
C20_WindowsGateFlows ==
    self.kind = "window" =>
        /\ \A i \in RecIdx :
              /\ QLt(Zero, Recs[i].charge_mwh) =>
                    InWindow(Recs[i].timestamp.hour, self.cfg.buy_hours)
              /\ QLt(Zero, Recs[i].discharge_mwh) =>
                    InWindow(Recs[i].timestamp.hour, self.cfg.sell_hours)
        /\ last_day # <<>> =>
              \A i \in 1..LastN :
                  LET r == LastRec(i)
                      h == last_day[i].timestamp.hour
                  IN  (~InWindow(h, self.cfg.buy_hours) /\ ~InWindow(h, self.cfg.sell_hours)) =>
                          /\ r.action = "idle"
                          /\ r.charge_mwh = Zero /\ r.discharge_mwh = Zero
                          /\ r.soc = SocBefore(i)
                          /\ r.pv_export_mwh = QMax(QSub(LastPv(i), LastLoad(i)), Zero)

\* C20 witness: the time-window strategy, with PV and load, has charged
\* inside its buy window and then exported PV surplus at an hour outside
\* both windows.
C20_Witness ==
    /\ self.kind = "window" /\ self.pv_series.given /\ last_day # <<>>
    /\ \E i \in RecIdx : QLt(Zero, Recs[i].charge_mwh)
    /\ \E i \in 1..LastN :
          /\ ~InWindow(last_day[i].timestamp.hour, self.cfg.buy_hours)
          /\ ~InWindow(last_day[i].timestamp.hour, self.cfg.sell_hours)
          /\ QLt(Zero, LastRec(i).pv_export_mwh)
          /\ SocBefore(i) # HalfCapacity

\* C21: in the records of a day the LP strategy simulated, every step has
\* soc = (soc before the step) + (from_pv_mwh + from_grid_mwh) * efficiency
\* * 0.25 - discharge_mwh * 0.25 / efficiency, the first step counting from
\* the soc the day started from, and 0 <= soc <= capacity.
C21_LPRecurrence ==
    (self.kind = "lp" /\ last_day # <<>>) =>
        \A i \in 1..LastN :
            LET r == LastRec(i)
            IN  /\ r.soc = QSub(QAdd(SocBefore(i),
                                     QMul(QMul(QAdd(r.from_pv_mwh, r.from_grid_mwh),
                                               self.cfg.efficiency), dt)),
                                QMul(QDiv(r.discharge_mwh, self.cfg.efficiency), dt))
                /\ InCapacity(r.soc)

\* C21 witness: the LP strategy has simulated a day of two steps on top of
\* an earlier day, charging in one step and discharging in one, with a soc
\* that moved in both.
C21_Witness ==
    /\ self.kind = "lp" /\ raised = "no" /\ LastN = 2
    /\ pre.results # <<>>
    /\ \E i \in 1..LastN : QLt(Zero, LastRec(i).charge_mwh)
    /\ \E i \in 1..LastN : QLt(Zero, LastRec(i).discharge_mwh)
    /\ LastRec(1).soc # SocBefore(1) /\ LastRec(2).soc # LastRec(1).soc

\* What a step that charges charge_mwh and discharges discharge_mwh adds to
\* soc: in the two heuristics (soc += charge_mwh * efficiency, soc -=
\* discharge_mwh) and in the energy balance of the linear program.
HeuristicDelta(c, charge_mwh, discharge_mwh) ==
    QSub(QMul(charge_mwh, c.efficiency), discharge_mwh)
LPDelta(c, charge_mwh, discharge_mwh) ==
    QSub(QMul(QMul(charge_mwh, c.efficiency), dt),
         QMul(QDiv(discharge_mwh, c.efficiency), dt))

\* C22: the energy balance is the same across the quantile, time-window and
\* LP strategies: the soc change of every recorded step is the one the
\* heuristics' update and the program's recurrence both give for the
\* recorded charge_mwh and discharge_mwh.
C22_SameEnergyBalance ==
    (self.kind \in Kinds /\ last_day # <<>>) =>
        \A i \in 1..LastN :
            LET r == LastRec(i)
                delta == QSub(r.soc, SocBefore(i))
            IN  /\ delta = HeuristicDelta(self.cfg, r.charge_mwh, r.discharge_mwh)
                /\ delta = LPDelta(self.cfg, r.charge_mwh, r.discharge_mwh)

\* C23: every LP record is labelled "charge" if charge_mwh > 1e-5, otherwise
\* "discharge" if discharge_mwh > 1e-5, otherwise "idle" (a step with both
\* above the threshold is labelled "charge"), and has to_load_mwh =
\* min(discharge_mwh, load) and to_grid_mwh = discharge_mwh - to_load_mwh.
C23_LPLabels ==
    self.kind = "lp" =>
        /\ \A i \in RecIdx :
              Recs[i].action = IF QLt(ActionEps, Recs[i].charge_mwh) THEN "charge"
                               ELSE IF QLt(ActionEps, Recs[i].discharge_mwh) THEN "discharge"
                               ELSE "idle"
        /\ last_day # <<>> =>
              \A i \in 1..LastN :
                  LET r == LastRec(i)
                  IN  /\ r.to_load_mwh = QMin(r.discharge_mwh, LastLoad(i))
                      /\ r.to_grid_mwh = QSub(r.discharge_mwh, r.to_load_mwh)

\* C23 witness: the LP strategy has recorded a step with charge_mwh and
\* discharge_mwh both above the threshold, labelled "charge".
C23_Witness ==
    /\ self.kind = "lp"
    /\ \E i \in RecIdx :
          /\ QLt(ActionEps, Recs[i].charge_mwh)
          /\ QLt(ActionEps, Recs[i].discharge_mwh)
          /\ Recs[i].action = "charge"

\* The all-zero dispatch of one step from soc s: nothing charged, discharged
\* or exported, soc unchanged.
ZeroOption(s) ==
    [charge_from_pv |-> Zero, charge_from_grid |-> Zero,
     export_pv_to_grid |-> Zero, discharge |-> Zero, soc |-> s]

\* Every label of the day is present in both series.
LabelsPresent(obj, day) ==
    \A i \in 1..Len(day) :
        HasLabel(obj.pv_series, day[i].idx) /\ HasLabel(obj.load_series, day[i].idx)

\* C24: for the LP strategy with capacity >= 0 and max_power >= 0 the soc
\* stays in [0, capacity] from construction on, and the program of every
\* day simulated is feasible and bounded: the all-zero dispatch satisfies
\* the constraints of every step, whatever the prices, PV and load, and
\* every feasible value of a variable lies between 0 and max_power * 0.25
\* or the PV surplus.
C24_LPFeasible ==
    (self.kind = "lp" /\ QLe(Zero, self.cfg.capacity) /\ QLe(Zero, self.cfg.max_power)) =>
        /\ InCapacity(self.soc) /\ InCapacity(pre.soc)
        /\ (last_day # <<>> /\ LabelsPresent(pre, last_day)) =>
              /\ \A i \in 1..Len(last_day) :
                    LET opts == LPOptions(self.cfg, pre.soc, LastPv(i), LastLoad(i))
                        surplus == QMax(QSub(LastPv(i), LastLoad(i)), Zero)
                    IN  /\ ZeroOption(pre.soc) \in opts
                        /\ \A o \in opts :
                              /\ QLe(Zero, o.charge_from_pv) /\ QLe(o.charge_from_pv, surplus)
                              /\ QLe(Zero, o.export_pv_to_grid) /\ QLe(o.export_pv_to_grid, surplus)
                              /\ QLe(Zero, o.charge_from_grid) /\ QLe(o.charge_from_grid, PowerStep)
                              /\ QLe(Zero, o.discharge) /\ QLe(o.discharge, PowerStep)
              /\ LPPlans(pre, last_day, 1, pre.soc) # {}

\* C24 witness: the LP strategy has solved a day of two steps that started
\* with the battery full or empty, after an earlier day.
C24_Witness ==
    /\ self.kind = "lp" /\ raised = "no" /\ LastN = 2
    /\ QLt(Zero, self.cfg.capacity)
    /\ pre.results # <<>>
    /\ pre.soc \in {Zero, self.cfg.capacity}

\* C25: PV surplus is never over-allocated: every record of the quantile,
\* time-window and LP strategies has from_pv_mwh + pv_export_mwh <=
\* max(pv - load, 0), and in the quantile and time-window strategies the two
\* sides are equal at every step.
C25_PvSurplusAllocation ==
    (self.kind \in Kinds /\ last_day # <<>>) =>
        \A i \in 1..LastN :
            LET r == LastRec(i)
                used == QAdd(r.from_pv_mwh, r.pv_export_mwh)
                surplus == QMax(QSub(LastPv(i), LastLoad(i)), Zero)
            IN  /\ QLe(used, surplus)
                /\ self.kind \in {"threshold", "window"} => used = surplus

\* C25 witness: a heuristic strategy has charged from PV and exported the
\* rest of the surplus in one step, and recorded a step with PV but no
\* surplus.
C25_Witness ==
    /\ self.kind \in {"threshold", "window"} /\ last_day # <<>>
    /\ \E i \in 1..LastN :
          /\ QLt(Zero, LastRec(i).from_pv_mwh)
          /\ QLt(Zero, LastRec(i).pv_export_mwh)
    /\ \E i \in 1..LastN :
          /\ QLt(Zero, LastPv(i)) /\ QLe(LastPv(i), LastLoad(i))

\* C26: flow accounting is closed in every record of the quantile,
\* time-window and LP strategies: charge_mwh = from_pv_mwh + from_grid_mwh,
\* discharge_mwh = to_load_mwh + to_grid_mwh, the four components are >= 0,
\* and in the LP strategy to_grid_mwh = 0 at every step whose load is > 0.
C26_FlowAccounting ==
    self.kind \in Kinds =>
        /\ \A i \in RecIdx :
              /\ Recs[i].charge_mwh = QAdd(Recs[i].from_pv_mwh, Recs[i].from_grid_mwh)
              /\ Recs[i].discharge_mwh = QAdd(Recs[i].to_load_mwh, Recs[i].to_grid_mwh)
              /\ QLe(Zero, Recs[i].from_pv_mwh) /\ QLe(Zero, Recs[i].from_grid_mwh)
              /\ QLe(Zero, Recs[i].to_load_mwh) /\ QLe(Zero, Recs[i].to_grid_mwh)
        /\ (self.kind = "lp" /\ last_day # <<>>) =>
              \A i \in 1..LastN :
                  QLt(Zero, LastLoad(i)) => LastRec(i).to_grid_mwh = Zero

\* The label the trigger condition alone gives row i of the last day: the
\* price against the day's quantiles, or the hour against the windows.
TriggerLabel(i) ==
    LET price == last_day[i].price_eur_per_mwh
        h == last_day[i].timestamp.hour
        charges == IF self.kind = "threshold"
                   THEN QLt(price, Quantile(DayPrices(last_day), self.cfg.buy_threshold))
                   ELSE InWindow(h, self.cfg.buy_hours)
        discharges == IF self.kind = "threshold"
                      THEN QLt(Quantile(DayPrices(last_day), self.cfg.sell_threshold), price)
                      ELSE InWindow(h, self.cfg.sell_hours)
    IN  IF charges THEN "charge" ELSE IF discharges THEN "discharge" ELSE "idle"

\* C27: in the quantile and time-window strategies the label of a record
\* is the one its trigger condition gives, whatever energy moved: a step
\* that meets the charge condition with soc = capacity is recorded "charge"
\* with charge_mwh = 0, one that meets the discharge condition with soc = 0
\* is recorded "discharge" with discharge_mwh = 0, and every record
\* labelled "idle" has charge_mwh = discharge_mwh = 0.
C27_LabelFollowsTrigger ==
    self.kind \in {"threshold", "window"} =>
        /\ \A i \in RecIdx :
              Recs[i].action = "idle" =>
                  Recs[i].charge_mwh = Zero /\ Recs[i].discharge_mwh = Zero
        /\ last_day # <<>> =>
              \A i \in 1..LastN :
                  LET r == LastRec(i)
                  IN  /\ r.action = TriggerLabel(i)
                      /\ (r.action = "charge" /\ SocBefore(i) = self.cfg.capacity) =>
                            r.charge_mwh = Zero
                      /\ (r.action = "discharge" /\ SocBefore(i) = Zero) =>
                            r.discharge_mwh = Zero

\* C27 witness: a time-window strategy with power to charge met its charge
\* condition with a full battery and recorded "charge" with charge_mwh = 0.
C27_Witness ==
    /\ self.kind = "window" /\ last_day # <<>>
    /\ QLt(Zero, self.cfg.max_power)
    /\ \E i \in 1..LastN :
          /\ SocBefore(i) = self.cfg.capacity
          /\ TriggerLabel(i) = "charge"
          /\ LastRec(i).action = "charge"
          /\ LastRec(i).charge_mwh = Zero

\* The rows of the day groups the running loop has not simulated yet.
RECURSIVE RowsLeft(_)
RowsLeft(gs) == IF gs = <<>> THEN 0 ELSE Len(Head(gs)) + RowsLeft(Tail(gs))

\* Between two states: the records only grow (the earlier ones stay first),
\* the call of run_simulation leaves the object as it is, a day that returns
\* adds one record per row, and a reset() empties the records.
RecordsOnlyGrow ==
    /\ resets' = resets =>
          /\ Len(self'.results) >= Len(self.results)
          /\ SubSeq(self'.results, 1, Len(self.results)) = self.results
    /\ (pc \in {"ready", "returned"} /\ pc' = "running") => self' = self
    /\ (pc = "running" /\ raised' = "no") =>
          Len(self'.results) = Len(self.results) + Len(Head(groups))
    /\ resets' # resets => self'.results = <<>>

\* In a state: without a reset the records are as many as the rows handed
\* to run_simulation less those still to simulate, and the first day of a
\* second or later run since the last reset started on top of the earlier
\* records, from the soc stored in the last of them.
RecordsCountRows ==
    /\ (resets = 0 /\ pc \in {"running", "returned", "reported", "failed"}) =>
          Len(Recs) = rows - RowsLeft(groups)
    /\ (runs >= 2 /\ calls # <<>>) =>
          /\ calls[1].nresults \in RecIdx
          /\ calls[1].soc = Recs[calls[1].nresults].soc

\* C28: run_simulation never resets the strategy: a second run without
\* reset() keeps the records of the first, appends its own after them and
\* starts its first day from the final soc of the first run; the record
\* sequence only grows between resets and its length is the number of rows
\* simulated since the last reset.
C28_RunNeverResets == []RecordsCountRows /\ [][RecordsOnlyGrow]_vars

\* C28 witness: a second run without any reset() has returned; its first
\* day started with records present and from a soc other than half the
\* capacity, and the records now cover the rows of both runs.
C28_Witness ==
    /\ runs = 2 /\ resets = 0 /\ pc = "returned"
    /\ calls[1].nresults > 0
    /\ calls[1].soc # HalfCapacity
    /\ Len(Recs) = rows /\ Len(Recs) > Len(run_input)

====
